---- MODULE Spec2Model ----
(***************************************************************************)
(* The load of docs/source/conf.py (IOServer's Sphinx configuration).      *)
(*                                                                         *)
(* conf.py is a Python module body: two imports followed by fourteen       *)
(* assignments.  The model executes it the way Python evaluates it: every  *)
(* statement is evaluated left to right on an operand stack and its        *)
(* result is bound in the module namespace `ns`.  List, tuple and dict     *)
(* displays are built element by element, a dict display inserts its      *)
(* items in order (a repeated key overwrites the earlier entry), reading   *)
(* a name that is not bound yet raises NameError and aborts the load.      *)
(***************************************************************************)
EXTENDS Integers, Sequences, FiniteSets, TLC

VARIABLES pc, stack, ns, status

vars == <<pc, stack, ns, status>>

(***************************************************************************)
(* Python values.                                                          *)
(***************************************************************************)
StrV(s) == [t |-> "str", v |-> s]
IntV(n) == [t |-> "int", v |-> n]
BoolV(b) == [t |-> "bool", v |-> b]
NoneV == [t |-> "none", v |-> "None"]
ModuleV(m) == [t |-> "module", v |-> m]
ListV(items) == [t |-> "list", v |-> items]
TupleV(items) == [t |-> "tuple", v |-> items]
DictV(items) == [t |-> "dict", v |-> items]

\* Equality of two values used as dict keys (type first, then payload).
KeyEq(a, b) == a.t = b.t /\ a.v = b.v

(***************************************************************************)
(* Expressions and statements as they are written in conf.py.              *)
(***************************************************************************)
Str(s) == [e |-> "const", val |-> StrV(s)]
Num(n) == [e |-> "const", val |-> IntV(n)]
Bool(b) == [e |-> "const", val |-> BoolV(b)]
None == [e |-> "const", val |-> NoneV]
Name(id) == [e |-> "name", id |-> id]
List(items) == [e |-> "list", items |-> items]
Tuple(items) == [e |-> "tuple", items |-> items]
Dict(items) == [e |-> "dict", items |-> items]
FStr(parts) == [e |-> "fstr", items |-> parts]
Fmt(x) == [e |-> "fmt", items |-> <<x>>]

Import(m) == [s |-> "import", target |-> m, value |-> None]
Assign(id, x) == [s |-> "assign", target |-> id, value |-> x]

import_os == Import("os")
import_sys == Import("sys")

project == Assign("project", Str("IOServer"))
copyright == Assign("copyright", Str("2024, Ben Mz"))
author == Assign("author", Str("Ben Mz"))
\* Variant: release bumped without version.
release_bumped == Assign("release", Str("2.0.1"))
release == Assign("release", Str("2.0.0"))
version == Assign("version", Str("2.0.0"))

\* Variant: myst_parser moved to the front of the list.
extensions_reordered ==
    Assign("extensions", List(<<
        Str("myst_parser"),
        Str("sphinx.ext.autodoc"),
        Str("sphinx.ext.viewcode"),
        Str("sphinx.ext.napoleon"),
        Str("sphinx.ext.intersphinx")>>))

\* Variant: myst_parser dropped from the list.
extensions_no_myst ==
    Assign("extensions", List(<<
        Str("sphinx.ext.autodoc"),
        Str("sphinx.ext.viewcode"),
        Str("sphinx.ext.napoleon"),
        Str("sphinx.ext.intersphinx")>>))

extensions ==
    Assign("extensions", List(<<
        Str("sphinx.ext.autodoc"),
        Str("sphinx.ext.viewcode"),
        Str("sphinx.ext.napoleon"),
        Str("sphinx.ext.intersphinx"),
        Str("myst_parser")>>))

\* Variant: option name misspelt.
templates_path_typo == Assign("template_path", List(<<Str("_templates")>>))
templates_path == Assign("templates_path", List(<<Str("_templates")>>))
exclude_patterns == Assign("exclude_patterns", List(<<>>))

html_theme == Assign("html_theme", Str("sphinx_rtd_theme"))
html_static_path == Assign("html_static_path", List(<<Str("_static")>>))
\* Variant: the f-string interpolates a name the file never binds.
html_title_unbound ==
    Assign("html_title",
           FStr(<<Fmt(Name("project")), Str(" v"), Fmt(Name("__version__"))>>))
html_title ==
    Assign("html_title",
           FStr(<<Fmt(Name("project")), Str(" v"), Fmt(Name("version"))>>))

\* Variant: navigation_depth left unset (None).
html_theme_options_null ==
    Assign("html_theme_options", Dict(<<
        <<Str("logo_only"), Bool(FALSE)>>,
        <<Str("display_version"), Bool(TRUE)>>,
        <<Str("prev_next_buttons_location"), Str("bottom")>>,
        <<Str("style_external_links"), Bool(FALSE)>>,
        <<Str("vcs_pageview_mode"), Str("")>>,
        <<Str("collapse_navigation"), Bool(TRUE)>>,
        <<Str("sticky_navigation"), Bool(TRUE)>>,
        <<Str("navigation_depth"), None>>,
        <<Str("includehidden"), Bool(TRUE)>>,
        <<Str("titles_only"), Bool(FALSE)>> >>))

\* Variant: sticky_navigation written twice, with different values.
html_theme_options_dupkey ==
    Assign("html_theme_options", Dict(<<
        <<Str("logo_only"), Bool(FALSE)>>,
        <<Str("display_version"), Bool(TRUE)>>,
        <<Str("prev_next_buttons_location"), Str("bottom")>>,
        <<Str("style_external_links"), Bool(FALSE)>>,
        <<Str("vcs_pageview_mode"), Str("")>>,
        <<Str("sticky_navigation"), Bool(FALSE)>>,
        <<Str("sticky_navigation"), Bool(TRUE)>>,
        <<Str("navigation_depth"), Num(4)>>,
        <<Str("includehidden"), Bool(TRUE)>>,
        <<Str("titles_only"), Bool(FALSE)>> >>))

html_theme_options ==
    Assign("html_theme_options", Dict(<<
        <<Str("logo_only"), Bool(FALSE)>>,
        <<Str("display_version"), Bool(TRUE)>>,
        <<Str("prev_next_buttons_location"), Str("bottom")>>,
        <<Str("style_external_links"), Bool(FALSE)>>,
        <<Str("vcs_pageview_mode"), Str("")>>,
        <<Str("collapse_navigation"), Bool(TRUE)>>,
        <<Str("sticky_navigation"), Bool(TRUE)>>,
        <<Str("navigation_depth"), Num(4)>>,
        <<Str("includehidden"), Bool(TRUE)>>,
        <<Str("titles_only"), Bool(FALSE)>> >>))

myst_enable_extensions ==
    Assign("myst_enable_extensions", List(<<
        Str("colon_fence"),
        Str("deflist"),
        Str("html_admonition"),
        Str("html_image"),
        Str("linkify"),
        Str("replacements"),
        Str("smartquotes"),
        Str("substitution"),
        Str("tasklist")>>))

\* Variant: the components of the pair swapped.
intersphinx_mapping_swapped ==
    Assign("intersphinx_mapping", Dict(<<
        <<Str("python"),
          Tuple(<<None, Str("https://docs.python.org/3/")>>)>> >>))

intersphinx_mapping ==
    Assign("intersphinx_mapping", Dict(<<
        <<Str("python"),
          Tuple(<<Str("https://docs.python.org/3/"), None>>)>> >>))

\* Variant: version assigned a second time at the end of the file.
conf_py_rebind ==
    <<import_os, import_sys,
      project, copyright, author, release, version,
      extensions, templates_path, exclude_patterns,
      html_theme, html_static_path, html_title,
      html_theme_options,
      myst_enable_extensions,
      intersphinx_mapping,
      Assign("version", Str("2.0.1"))>>

\* Variant: html_title computed before the project information block.
conf_py_title_first ==
    <<import_os, import_sys,
      html_title,
      project, copyright, author, release, version,
      extensions, templates_path, exclude_patterns,
      html_theme, html_static_path,
      html_theme_options,
      myst_enable_extensions,
      intersphinx_mapping>>

\* The module body, in file order.
conf_py ==
    <<import_os, import_sys,
      project, copyright, author, release, version,
      extensions, templates_path, exclude_patterns,
      html_theme, html_static_path, html_title,
      html_theme_options,
      myst_enable_extensions,
      intersphinx_mapping>>

(***************************************************************************)
(* Evaluation order: a statement becomes the sequence of stack steps       *)
(* Python performs for it.                                                 *)
(***************************************************************************)
Ins(op, arg) == [op |-> op, arg |-> arg]

RECURSIVE EvalOrder(_)
RECURSIVE EvalItems(_, _, _)

\* Steps for the items of a display, left to right; kind selects what is
\* done with each evaluated item.
EvalItems(kind, items, i) ==
    IF i > Len(items) THEN <<>>
    ELSE (CASE kind = "list" ->
                EvalOrder(items[i]) \o <<Ins("LIST_APPEND", i)>>
            [] kind = "dict" ->
                EvalOrder(items[i][1]) \o EvalOrder(items[i][2])
                    \o <<Ins("MAP_ADD", i)>>
            [] OTHER -> EvalOrder(items[i]))
         \o EvalItems(kind, items, i + 1)

EvalOrder(x) ==
    CASE x.e = "const" -> <<Ins("LOAD_CONST", x.val)>>
      [] x.e = "name" -> <<Ins("LOAD_NAME", x.id)>>
      [] x.e = "list" ->
            <<Ins("BUILD_LIST", 0)>> \o EvalItems("list", x.items, 1)
      [] x.e = "dict" ->
            <<Ins("BUILD_MAP", 0)>> \o EvalItems("dict", x.items, 1)
      [] x.e = "tuple" ->
            EvalItems("tuple", x.items, 1)
                \o <<Ins("BUILD_TUPLE", Len(x.items))>>
      [] x.e = "fmt" ->
            EvalOrder(x.items[1]) \o <<Ins("FORMAT_VALUE", 0)>>
      [] x.e = "fstr" ->
            EvalItems("fstr", x.items, 1)
                \o <<Ins("BUILD_STRING", Len(x.items))>>

StmtSteps(st) ==
    IF st.s = "import"
    THEN <<Ins("IMPORT_NAME", st.target), Ins("STORE_NAME", st.target)>>
    ELSE EvalOrder(st.value) \o <<Ins("STORE_NAME", st.target)>>

RECURSIVE BodySteps(_, _)
BodySteps(body, i) ==
    IF i > Len(body) THEN <<Ins("RETURN_VALUE", 0)>>
    ELSE StmtSteps(body[i]) \o BodySteps(body, i + 1)

Code == BodySteps(conf_py, 1)

(***************************************************************************)
(* Helpers on the operand stack and on values.                             *)
(***************************************************************************)
Top(k) == stack[Len(stack) - k]
Pop(k) == SubSeq(stack, 1, Len(stack) - k)
Push(s, val) == Append(s, val)

Bound(id) == id \in DOMAIN ns

Bind(id, val) ==
    [n \in DOMAIN ns \cup {id} |-> IF n = id THEN val ELSE ns[n]]

HasKey(d, k) == \E i \in 1..Len(d.v) : KeyEq(d.v[i][1], k)

\* d[k] = val: a key already present keeps its position and gets the new
\* value, a new key is added at the end.
SetItem(d, k, val) ==
    IF HasKey(d, k)
    THEN DictV([i \in 1..Len(d.v) |->
                   IF KeyEq(d.v[i][1], k) THEN <<d.v[i][1], val>> ELSE d.v[i]])
    ELSE DictV(Append(d.v, <<k, val>>))

Digit(n) == <<"0", "1", "2", "3", "4", "5", "6", "7", "8", "9">>[n + 1]

RECURSIVE NatStr(_)
NatStr(n) == IF n < 10 THEN Digit(n) ELSE NatStr(n \div 10) \o Digit(n % 10)

\* format(value) with an empty format spec, for the scalar values an
\* f-string of conf.py can interpolate.
Format(val) ==
    CASE val.t = "str" -> val.v
      [] val.t = "int" -> IF val.v < 0 THEN "-" \o NatStr(-val.v) ELSE NatStr(val.v)
      [] val.t = "bool" -> IF val.v THEN "True" ELSE "False"
      [] val.t = "none" -> "None"

RECURSIVE Join(_, _)
Join(parts, i) ==
    IF i > Len(parts) THEN "" ELSE parts[i].v \o Join(parts, i + 1)

(***************************************************************************)
(* The load.                                                               *)
(***************************************************************************)
Init ==
    /\ pc = 1
    /\ stack = <<>>
    /\ ns = [n \in {} |-> NoneV]
    /\ status = "loading"

Cur == Code[pc]

At(op) == status = "loading" /\ pc \in 1..Len(Code) /\ Cur.op = op

Advance(newStack) ==
    /\ stack' = newStack
    /\ pc' = pc + 1
    /\ UNCHANGED <<ns, status>>

ImportName == At("IMPORT_NAME") /\ Advance(Push(stack, ModuleV(Cur.arg)))

LoadConst == At("LOAD_CONST") /\ Advance(Push(stack, Cur.arg))

LoadName ==
    /\ At("LOAD_NAME")
    /\ IF Bound(Cur.arg)
       THEN Advance(Push(stack, ns[Cur.arg]))
       ELSE /\ status' = "error"
            /\ UNCHANGED <<pc, stack, ns>>

FormatValue == At("FORMAT_VALUE") /\ Advance(Push(Pop(1), StrV(Format(Top(0)))))

BuildString ==
    /\ At("BUILD_STRING")
    /\ Advance(Push(Pop(Cur.arg),
                    StrV(Join(SubSeq(stack, Len(stack) - Cur.arg + 1, Len(stack)), 1))))

BuildList == At("BUILD_LIST") /\ Advance(Push(stack, ListV(<<>>)))

ListAppend ==
    /\ At("LIST_APPEND")
    /\ Advance(Push(Pop(2), ListV(Append(Top(1).v, Top(0)))))

BuildMap == At("BUILD_MAP") /\ Advance(Push(stack, DictV(<<>>)))

MapAdd ==
    /\ At("MAP_ADD")
    /\ Advance(Push(Pop(3), SetItem(Top(2), Top(1), Top(0))))

BuildTuple ==
    /\ At("BUILD_TUPLE")
    /\ Advance(Push(Pop(Cur.arg),
                    TupleV(SubSeq(stack, Len(stack) - Cur.arg + 1, Len(stack)))))

StoreName ==
    /\ At("STORE_NAME")
    /\ ns' = Bind(Cur.arg, Top(0))
    /\ stack' = Pop(1)
    /\ pc' = pc + 1
    /\ UNCHANGED status

ReturnValue ==
    /\ At("RETURN_VALUE")
    /\ status' = "done"
    /\ pc' = pc + 1
    /\ UNCHANGED <<stack, ns>>

Next ==
    \/ ImportName
    \/ LoadConst
    \/ LoadName
    \/ FormatValue
    \/ BuildString
    \/ BuildList
    \/ ListAppend
    \/ BuildMap
    \/ MapAdd
    \/ BuildTuple
    \/ StoreName
    \/ ReturnValue

Spec == Init /\ [][Next]_vars

\* The interpreter runs the module body to its end: a step that can be
\* taken is taken.
FairSpec == Spec /\ WF_vars(Next)

Done == status = "done"

(***************************************************************************)
(* Vocabulary of the properties.                                           *)
(***************************************************************************)
StrList(names) == ListV([i \in 1..Len(names) |-> StrV(names[i])])

NoDup(items) ==
    \A i, j \in 1..Len(items) : KeyEq(items[i], items[j]) => i = j

Contains(items, val) == \E i \in 1..Len(items) : KeyEq(items[i], val)

MetaNames == {"project", "copyright", "author", "release", "version"}

MetaValue ==
    [project |-> "IOServer", copyright |-> "2024, Ben Mz", author |-> "Ben Mz",
     release |-> "2.0.0", version |-> "2.0.0"]

OptionNames ==
    MetaNames \cup
    {"extensions", "templates_path", "exclude_patterns", "html_theme",
     "html_static_path", "html_title", "html_theme_options",
     "myst_enable_extensions", "intersphinx_mapping"}

ExtensionNames ==
    <<"sphinx.ext.autodoc", "sphinx.ext.viewcode", "sphinx.ext.napoleon",
      "sphinx.ext.intersphinx", "myst_parser">>

MystFeatures ==
    <<"colon_fence", "deflist", "html_admonition", "html_image", "linkify",
      "replacements", "smartquotes", "substitution", "tasklist">>

ThemeOptions ==
    DictV(<< <<StrV("logo_only"), BoolV(FALSE)>>,
             <<StrV("display_version"), BoolV(TRUE)>>,
             <<StrV("prev_next_buttons_location"), StrV("bottom")>>,
             <<StrV("style_external_links"), BoolV(FALSE)>>,
             <<StrV("vcs_pageview_mode"), StrV("")>>,
             <<StrV("collapse_navigation"), BoolV(TRUE)>>,
             <<StrV("sticky_navigation"), BoolV(TRUE)>>,
             <<StrV("navigation_depth"), IntV(4)>>,
             <<StrV("includehidden"), BoolV(TRUE)>>,
             <<StrV("titles_only"), BoolV(FALSE)>> >>)

PythonInventory == TupleV(<<StrV("https://docs.python.org/3/"), NoneV>>)

\* The step about to run binds name n.
Storing(n) == At("STORE_NAME") /\ Cur.arg = n

\* Once bound, n keeps its value over the step.
Kept(n) == Bound(n) => (n \in DOMAIN ns' /\ ns'[n] = ns[n])

\* The mappings bound in the namespace.
BoundDicts == {ns[n] : n \in {m \in DOMAIN ns : ns[m].t = "dict"}}

(***************************************************************************)
(* C1: each of project, copyright, author, release and version is bound    *)
(* exactly once during the load (a bound name is never stored again, and   *)
(* all five are bound when the load is done) and keeps, in every later     *)
(* state, the value written in the file.                                   *)
(***************************************************************************)
C1_MetadataSetOnce ==
    /\ [](\A n \in MetaNames : Bound(n) => ns[n] = StrV(MetaValue[n]))
    /\ [](Done => \A n \in MetaNames : Bound(n))
    /\ [][\A n \in MetaNames : Kept(n) /\ (Storing(n) => ~Bound(n))]_vars

C1_Witness ==
    /\ status = "loading"
    /\ \A n \in MetaNames : Bound(n)
    /\ Bound("html_theme_options")

(***************************************************************************)
(* C2: when the load completes the namespace defines exactly the fourteen  *)
(* option names plus os and sys, each bound to the value written in the    *)
(* file.                                                                   *)
(***************************************************************************)
C2_ExactNamespace ==
    Done =>
        /\ DOMAIN ns = OptionNames \cup {"os", "sys"}
        /\ ns["os"] = ModuleV("os")
        /\ ns["sys"] = ModuleV("sys")
        /\ \A n \in MetaNames : ns[n] = StrV(MetaValue[n])
        /\ ns["extensions"] = StrList(ExtensionNames)
        /\ ns["templates_path"] = StrList(<<"_templates">>)
        /\ ns["exclude_patterns"] = ListV(<<>>)
        /\ ns["html_theme"] = StrV("sphinx_rtd_theme")
        /\ ns["html_static_path"] = StrList(<<"_static">>)
        /\ ns["html_title"] = StrV("IOServer v2.0.0")
        /\ ns["html_theme_options"] = ThemeOptions
        /\ ns["myst_enable_extensions"] = StrList(MystFeatures)
        /\ ns["intersphinx_mapping"] = DictV(<< <<StrV("python"), PythonInventory>> >>)

C2_Witness == Done /\ Cardinality(DOMAIN ns) = 16 /\ stack = <<>>

(***************************************************************************)
(* C3: extensions is the sequence autodoc, viewcode, napoleon,             *)
(* intersphinx, myst_parser in that order, without a repeated identifier,  *)
(* and no step changes it or stores it again once it is bound.             *)
(***************************************************************************)
C3_ExtensionsOrdered ==
    /\ [](Bound("extensions") =>
            /\ ns["extensions"] = StrList(ExtensionNames)
            /\ NoDup(ns["extensions"].v))
    /\ [][Kept("extensions") /\ (Storing("extensions") => ~Bound("extensions"))]_vars

C3_Witness ==
    /\ Bound("extensions")
    /\ Len(ns["extensions"].v) = 5
    /\ Bound("myst_enable_extensions")

(***************************************************************************)
(* C4: html_theme_options has ten entries and the value of every one of    *)
(* them is a boolean, a string or an integer.                              *)
(***************************************************************************)
C4_ThemeOptionsScalar ==
    Bound("html_theme_options") =>
        LET d == ns["html_theme_options"] IN
        /\ d.t = "dict"
        /\ Len(d.v) = 10
        /\ \A i \in 1..Len(d.v) : d.v[i][2].t \in {"bool", "str", "int"}

C4_Witness ==
    /\ Bound("html_theme_options")
    /\ \E i \in 1..Len(ns["html_theme_options"].v) :
          ns["html_theme_options"].v[i][2].t = "int"

(***************************************************************************)
(* C5: every entry of intersphinx_mapping maps a string to a pair of a     *)
(* string (the base URL) and a string or None (the inventory), and the     *)
(* only entry is "python" -> ("https://docs.python.org/3/", None).         *)
(***************************************************************************)
C5_IntersphinxPairs ==
    Bound("intersphinx_mapping") =>
        LET d == ns["intersphinx_mapping"] IN
        /\ d.t = "dict"
        /\ \A i \in 1..Len(d.v) :
              /\ d.v[i][1].t = "str"
              /\ d.v[i][2].t = "tuple"
              /\ Len(d.v[i][2].v) = 2
              /\ d.v[i][2].v[1].t = "str"
              /\ d.v[i][2].v[2].t \in {"str", "none"}
        /\ Len(d.v) = 1
        /\ d.v[1][1].v = "python"
        /\ d.v[1][2] = PythonInventory

C5_Witness ==
    /\ Bound("intersphinx_mapping")
    /\ Len(ns["intersphinx_mapping"].v) = 1

(***************************************************************************)
(* C6: no key is written twice in any mapping of the configuration: a      *)
(* dict display never inserts a key that is not a string or that the       *)
(* mapping already holds, no top-level name that is already bound is       *)
(* stored again, and the keys of every bound mapping are distinct strings. *)
(***************************************************************************)
C6_UniqueStringKeys ==
    /\ At("MAP_ADD") => (Top(1).t = "str" /\ ~HasKey(Top(2), Top(1)))
    /\ At("STORE_NAME") => ~Bound(Cur.arg)
    /\ \A d \in BoundDicts :
          \A i, j \in 1..Len(d.v) :
              /\ d.v[i][1].t = "str"
              /\ (KeyEq(d.v[i][1], d.v[j][1]) => i = j)

C6_Witness == At("MAP_ADD") /\ Len(Top(2).v) = 9

(***************************************************************************)
(* C7: the load is one deterministic straight-line run: while loading      *)
(* exactly one step can be taken and it moves to the next position, the    *)
(* load never ends in an error, it terminates, and once it is done no      *)
(* step is possible and the namespace no longer changes.                   *)
(***************************************************************************)
EnabledSteps ==
    (IF ENABLED ImportName THEN 1 ELSE 0) + (IF ENABLED LoadConst THEN 1 ELSE 0)
    + (IF ENABLED LoadName THEN 1 ELSE 0) + (IF ENABLED FormatValue THEN 1 ELSE 0)
    + (IF ENABLED BuildString THEN 1 ELSE 0) + (IF ENABLED BuildList THEN 1 ELSE 0)
    + (IF ENABLED ListAppend THEN 1 ELSE 0) + (IF ENABLED BuildMap THEN 1 ELSE 0)
    + (IF ENABLED MapAdd THEN 1 ELSE 0) + (IF ENABLED BuildTuple THEN 1 ELSE 0)
    + (IF ENABLED StoreName THEN 1 ELSE 0) + (IF ENABLED ReturnValue THEN 1 ELSE 0)

C7_LoadTerminates ==
    /\ <>Done
    /\ [](status # "error")
    /\ [](EnabledSteps = IF Done THEN 0 ELSE 1)
    /\ [][pc' = pc + 1 /\ ~Done]_vars
    /\ [][Done => ns' = ns]_vars

C7_Witness == Done /\ pc = Len(Code) + 1 /\ stack = <<>>

(***************************************************************************)
(* C8: html_title is computed with project and version already bound (no   *)
(* step reads an unbound name) and equals project, " v" and version        *)
(* joined, that is "IOServer v2.0.0", in every state where it is bound.    *)
(***************************************************************************)
C8_TitleFromProjectVersion ==
    /\ status # "error"
    /\ At("LOAD_NAME") => Bound(Cur.arg)
    /\ Storing("html_title") => (Bound("project") /\ Bound("version"))
    /\ Bound("html_title") =>
          /\ Bound("project") /\ Bound("version")
          /\ ns["html_title"] = StrV(ns["project"].v \o " v" \o ns["version"].v)
          /\ ns["html_title"] = StrV("IOServer v2.0.0")

C8_Witness == Bound("html_title") /\ status = "loading" /\ stack # <<>>

(***************************************************************************)
(* C9: at the end of the load intersphinx_mapping is defined only with     *)
(* sphinx.ext.intersphinx in extensions, myst_enable_extensions only with  *)
(* myst_parser in extensions, and myst_enable_extensions repeats no        *)
(* feature name.                                                           *)
(***************************************************************************)
C9_PluginOptionsBacked ==
    Done =>
        /\ Bound("intersphinx_mapping") =>
              /\ Bound("extensions")
              /\ Contains(ns["extensions"].v, StrV("sphinx.ext.intersphinx"))
        /\ Bound("myst_enable_extensions") =>
              /\ Bound("extensions")
              /\ Contains(ns["extensions"].v, StrV("myst_parser"))
              /\ NoDup(ns["myst_enable_extensions"].v)

C9_Witness ==
    /\ Done
    /\ Bound("intersphinx_mapping")
    /\ Bound("myst_enable_extensions")
    /\ Len(ns["myst_enable_extensions"].v) = 9

(***************************************************************************)
(* C10: at the end of the load release and version are the same string,    *)
(* "2.0.0".                                                                *)
(***************************************************************************)
C10_ReleaseEqualsVersion ==
    Done =>
        /\ Bound("release") /\ Bound("version")
        /\ ns["release"] = ns["version"]
        /\ ns["version"] = StrV("2.0.0")

C10_Witness == Done /\ Bound("release") /\ Bound("version") /\ Bound("html_title")

====
